---- MODULE Spec2Model ----
(***************************************************************************)
(* Social-media monitoring tool: the monitoring job scheduler              *)
(* (utils/job_manager.py), the session store (database/session_db.py and   *)
(* the per-platform *Database helpers) and the Twitch IRC chat collector   *)
(* (src/platforms/twitch_integration_enhanced.py).                         *)
(*                                                                         *)
(* The specifications of this module, one per component:                   *)
(*   Spec            the job scheduler (JobManager) and its clock          *)
(*   SpecStore       the Twitch tables of the session store                *)
(*   SpecKeys        entities added by name, by the helpers and the forms  *)
(*   SpecUpsert      the Twitter tables and add_tweet                      *)
(*   SpecIrc         Twitch collection cycles with their IRC client        *)
(*   SpecClient      an IRC client used directly, call by call             *)
(*   SpecClientLive  the same, the client's own steps being fair           *)
(*   SpecBoundary    jobs and channels added with any argument             *)
(*   SpecDriver      auto_run_jobs and the sidebar's due-check over jobs   *)
(*   SpecPage        the buttons of the Twitch page and of the sidebar     *)
(*   SpecSchedule    every JobManager call that reads or writes a schedule *)
(*   SpecYouTube     the add form of the YouTube page                      *)
(* Each one steps its own variables and leaves the others alone.           *)
(***************************************************************************)
EXTENDS Integers, Sequences, FiniteSets, TLC

VARIABLES
    now,        \* the wall clock, in ticks: what datetime.now() / time.time() read
    jobs,       \* st.session_state.monitoring_jobs: job id -> MonitoringJob
    lastOp,     \* history: the last JobManager call and what it returned (see Op)
    pausedIds   \* history: ids paused by pause_job / stop_all_jobs and not since
                \* resumed, started by start_all_jobs, removed or cleared

VARIABLES
    twitch_channels,        \* rows [id, channel_name, is_monitoring]
    twitch_stream_records,  \* rows [id, channel_id, is_live, chat_message_count]
    twitch_chat_messages,   \* rows [id, record_id, username, message, timestamp]
    reddit_subreddits,      \* rows [id, subreddit_name, is_monitoring]
    twitter_users,          \* rows [id, username, is_monitoring]
    twitter_tweets,         \* rows [id, user_id, tweet_id, created_at, text, metrics,
                            \*   collected_at]
    youtube_channels,       \* rows [id, channel_id, channel_name, added_at,
                            \*   is_monitoring]
    sqlite_sequence,        \* AUTOINCREMENT: table name -> the largest rowid ever given
    lastrowid,              \* what the last add_channel / add_subreddit / add_user /
                            \* add_stream_record call returned
    firstInsert,            \* history: tweet_id -> the row its first add_tweet inserted
    lastCall                \* history: tweet_id -> the arguments of its latest add_tweet

VARIABLES
    sock,           \* TwitchIRCClient.sock: None, or a socket object that is
                    \* "created" (not connected), "open" or "closed"
    running,        \* TwitchIRCClient.running
    messages,       \* TwitchIRCClient.messages
    message_count,  \* TwitchIRCClient.message_count
    pongs,          \* PONG lines sent during the latest collect_messages call
    pings,          \* history: PING lines the server delivered during that call
    reads,          \* recv calls made by the collect_messages call in progress
    cycle,          \* the collect_messages call in progress and its caller (see
                    \* NoCycle): pc is "idle", "loop" (at the while condition) or
                    \* "recv" (inside sock.recv)
    chat_data,      \* what the last collect_messages call returned
    raised,         \* whether the last call on the client raised to its caller
    collected       \* what the last collect_twitch_data call returned, as
                    \* Python prints it: "True", "False", "None" before the
                    \* first call

VARIABLES
    driver          \* auto_run_jobs: where it stands (pc), the due jobs it has
                    \* still to go through (todo), the job it is collecting
                    \* (job); and st.session_state.jobs_to_run

schedVars == <<jobs, lastOp, pausedIds>>

tableVars == <<twitch_channels, twitch_stream_records, twitch_chat_messages,
               reddit_subreddits, twitter_users, twitter_tweets, youtube_channels>>

storeVars == <<tableVars, sqlite_sequence, lastrowid>>

histVars == <<firstInsert, lastCall>>

ircVars == <<sock, running, messages, message_count, pongs, pings, reads, cycle,
             chat_data, raised, collected>>

vars == <<now, schedVars, storeVars, histVars, ircVars, driver>>

(***************************************************************************)
(* Bounds of the model.                                                    *)
(***************************************************************************)
TicksPerSec == 2      \* clock resolution: ticks in one second
SecPerMin == 1        \* seconds in one minute of the model (scaled down)
MaxNow == 2           \* the clock stops advancing here
MaxDrift == 1         \* ticks the clock may advance between two reads in one call
MaxJobs == 2          \* jobs in the scheduler
MaxRuns == 1          \* total_runs of one job

(***************************************************************************)
(* Values.                                                                 *)
(***************************************************************************)
None == "None"        \* Python None, for the string-valued fields
NoTime == -1          \* Python None, for the datetime-valued fields

Platforms == {"twitch", "reddit"}
\* (entity_id, entity_name) pairs the pages pass to add_job
Entities == {[id |-> 42, name |-> "ninja"]}
IntervalMinutes == {1}
IntervalSeconds == {2}
Errors == {"timeout"}

\* int(time.time()) at clock value t
Seconds(t) == t \div TicksPerSec

\* timedelta(minutes=m) for an interval kept in seconds (see MonitoringJob)
Delta(interval) == interval * TicksPerSec

\* the values a second clock read can return after a first read of t
LaterReads(t) == {u \in t..(t + MaxDrift) : u <= MaxNow}

(***************************************************************************)
(* MonitoringJob.  interval is interval_minutes kept in seconds, so that   *)
(* the interval_seconds / 60 of start_all_jobs stays an integer.           *)
(***************************************************************************)
\* f"{platform}_{entity_id}_{int(time.time())}"
JobId(platform, entity_id, t) == <<platform, entity_id, Seconds(t)>>

\* mutant: next_run defaults to one interval after creation
MonitoringJob_deferred(id, platform, entity, interval_minutes, t) ==
    [id |-> id, platform |-> platform, entity_id |-> entity.id,
     entity_name |-> entity.name, interval |-> interval_minutes * SecPerMin,
     last_run |-> NoTime, next_run |-> t + Delta(interval_minutes * SecPerMin),
     is_active |-> TRUE, total_runs |-> 0, last_error |-> None]

\* MonitoringJob(...) with __post_init__ run at clock value t
MonitoringJob(id, platform, entity, interval_minutes, t) ==
    [id |-> id, platform |-> platform, entity_id |-> entity.id,
     entity_name |-> entity.name, interval |-> interval_minutes * SecPerMin,
     last_run |-> NoTime, next_run |-> t,
     is_active |-> TRUE, total_runs |-> 0, last_error |-> None]

\* mutant: the due-check does not look at is_active
DueSet_paused(js, t, platform) ==
    {j \in DOMAIN js :
        /\ js[j].next_run <= t
        /\ (platform # None => js[j].platform = platform)}

\* the job list comprehension of get_jobs_due_for_run at clock value t
DueSet(js, t, platform) ==
    {j \in DOMAIN js :
        /\ js[j].is_active
        /\ js[j].next_run <= t
        /\ (platform # None => js[j].platform = platform)}

\* mutant: a failed run pauses the job
MarkedJob_autopause(job, t1, t2, success, error) ==
    [job EXCEPT !.last_run = t1,
                !.next_run = t2 + Delta(job.interval),
                !.total_runs = job.total_runs + 1,
                !.is_active = IF success THEN job.is_active ELSE FALSE,
                !.last_error = IF success THEN None ELSE error]

\* the body of mark_job_run: t1 and t2 are its two datetime.now() reads
MarkedJob(job, t1, t2, success, error) ==
    [job EXCEPT !.last_run = t1,
                !.next_run = t2 + Delta(job.interval),
                !.total_runs = job.total_runs + 1,
                !.last_error = IF success THEN None ELSE error]

\* mutant: resume keeps the old schedule
ResumedJob_keep(job, t) ==
    [job EXCEPT !.is_active = TRUE]

\* the body of resume_job at clock value t
ResumedJob(job, t) ==
    [job EXCEPT !.is_active = TRUE, !.next_run = t]

Remove(f, k) == [x \in DOMAIN f \ {k} |-> f[x]]

Put(f, k, v) == [x \in DOMAIN f \cup {k} |-> IF x = k THEN v ELSE f[x]]

NoJob == <<>>

\* A call and what it returned.  id: the job id add_job returned or resume_job
\* was given.  For get_jobs_due_for_run: filter is its argument, due the ids of
\* the jobs it returned, and prevOp / prevId the call made just before it.
\* For get_job_statistics: stats is the dict it returned.
RECURSIVE SumRuns(_, _)
\* sum(j.total_runs for j in jobs), over the jobs with the ids given
SumRuns(js, ids) ==
    IF ids = {} THEN 0
    ELSE LET j == CHOOSE j \in ids : TRUE
         IN js[j].total_runs + SumRuns(js, ids \ {j})

\* mutant: total_jobs counts the active jobs only
JobStatistics_active(js) ==
    [total_jobs |-> Cardinality({j \in DOMAIN js : js[j].is_active}),
     active_jobs |-> Cardinality({j \in DOMAIN js : js[j].is_active}),
     paused_jobs |-> Cardinality({j \in DOMAIN js : ~js[j].is_active}),
     jobs_by_platform |->
        [p \in {"twitch", "twitter", "youtube", "reddit"} |->
            Cardinality({j \in DOMAIN js : js[j].platform = p})],
     total_runs |-> SumRuns(js, DOMAIN js),
     jobs_with_errors |-> Cardinality({j \in DOMAIN js : js[j].last_error # None})]

\* the dict get_job_statistics builds from the jobs js
JobStatistics(js) ==
    [total_jobs |-> Cardinality(DOMAIN js),
     active_jobs |-> Cardinality({j \in DOMAIN js : js[j].is_active}),
     paused_jobs |-> Cardinality({j \in DOMAIN js : ~js[j].is_active}),
     jobs_by_platform |->
        [p \in {"twitch", "twitter", "youtube", "reddit"} |->
            Cardinality({j \in DOMAIN js : js[j].platform = p})],
     total_runs |-> SumRuns(js, DOMAIN js),
     jobs_with_errors |-> Cardinality({j \in DOMAIN js : js[j].last_error # None})]

\* what stands for the statistics in the record of a call that returns none
NoStats == JobStatistics(<<>>)

Op(name, id, filter, ret, prevOp, prevId) ==
    [op |-> name, id |-> id, filter |-> filter, due |-> ret,
     prevOp |-> prevOp, prevId |-> prevId, stats |-> NoStats]

\* add_job, resume_job and update_job_interval, whose id a later call is asked
\* about, and the bulk calls (no id), which a later due-check follows
IdOp(name, id) == Op(name, id, None, {}, None, NoJob)

\* any other call: it returns nothing
OtherOp == Op("other", NoJob, None, {}, None, NoJob)

(***************************************************************************)
(* The scheduler's operations.                                             *)
(***************************************************************************)
\* a JobManager call touches no table
SchedOnly == UNCHANGED <<storeVars, histVars, ircVars, driver>>

SchedInit ==
    /\ jobs = <<>>
    /\ lastOp = OtherOp
    /\ pausedIds = {}

\* time passes between two calls
Tick ==
    /\ now < MaxNow
    /\ now' = now + 1
    /\ UNCHANGED <<schedVars, storeVars, histVars, ircVars, driver>>

\* add_job: time.time() reads the clock for the id, __post_init__ reads it again
AddJob(platform, entity, interval_minutes) ==
    \E t2 \in LaterReads(now) :
        LET id == JobId(platform, entity.id, now) IN
        /\ Cardinality(DOMAIN jobs \cup {id}) <= MaxJobs
        /\ jobs' = Put(jobs, id, MonitoringJob(id, platform, entity, interval_minutes, t2))
        /\ now' = t2
        /\ lastOp' = IdOp("add_job", id)
        /\ UNCHANGED pausedIds
        /\ SchedOnly

\* remove_job(job_id)
RemoveJob(id) ==
    /\ jobs' = IF id \in DOMAIN jobs THEN Remove(jobs, id) ELSE jobs
    /\ pausedIds' = pausedIds \ {id}
    /\ lastOp' = OtherOp
    /\ UNCHANGED now
    /\ SchedOnly

\* mutant: pause_job without the membership test pauses whatever it finds
PauseJob_all(id) ==
    /\ jobs' = IF id \in DOMAIN jobs
               THEN [jobs EXCEPT ![id].is_active = FALSE]
               ELSE [j \in DOMAIN jobs |-> [jobs[j] EXCEPT !.is_active = FALSE]]
    /\ pausedIds' = IF id \in DOMAIN jobs THEN pausedIds \cup {id} ELSE DOMAIN jobs
    /\ lastOp' = OtherOp
    /\ UNCHANGED now
    /\ SchedOnly

\* pause_job(job_id)
PauseJob(id) ==
    /\ jobs' = IF id \in DOMAIN jobs
               THEN [jobs EXCEPT ![id].is_active = FALSE] ELSE jobs
    /\ pausedIds' = IF id \in DOMAIN jobs THEN pausedIds \cup {id} ELSE pausedIds
    /\ lastOp' = OtherOp
    /\ UNCHANGED now
    /\ SchedOnly

\* resume_job(job_id)
ResumeJob(id) ==
    /\ jobs' = IF id \in DOMAIN jobs
               THEN [jobs EXCEPT ![id] = ResumedJob(jobs[id], now)] ELSE jobs
    /\ pausedIds' = pausedIds \ {id}
    /\ lastOp' = IdOp("resume_job", id)
    /\ UNCHANGED now
    /\ SchedOnly

\* get_jobs_due_for_run(platform)
DueJobs(platform) ==
    /\ lastOp' = Op("get_jobs_due_for_run", NoJob, platform,
                    DueSet(jobs, now, platform), lastOp.op, lastOp.id)
    /\ UNCHANGED <<now, jobs, pausedIds>>
    /\ SchedOnly

\* mark_job_run(job_id, success, error)
MarkRun(id, success, error) ==
    \E t2 \in LaterReads(now) :
        /\ id \in DOMAIN jobs => jobs[id].total_runs < MaxRuns
        /\ jobs' = IF id \in DOMAIN jobs
                   THEN [jobs EXCEPT ![id] = MarkedJob(jobs[id], now, t2, success, error)]
                   ELSE jobs
        /\ now' = IF id \in DOMAIN jobs THEN t2 ELSE now
        /\ lastOp' = OtherOp
        /\ UNCHANGED pausedIds
        /\ SchedOnly

\* mutant: start_all_jobs leaves each job its own interval
StartAll_keep(interval_seconds) ==
    \E t2 \in LaterReads(now) :
    \E read \in [DOMAIN jobs -> now..t2] :
        /\ jobs' = [j \in DOMAIN jobs |->
                       [jobs[j] EXCEPT !.is_active = TRUE,
                                       !.next_run = read[j]]]
        /\ now' = IF DOMAIN jobs = {} THEN now ELSE t2
        /\ pausedIds' = {}
        /\ lastOp' = IdOp("start_all_jobs", NoJob)
        /\ SchedOnly

\* start_all_jobs(interval_seconds): the loop reads the clock once per job
StartAll(interval_seconds) ==
    \E t2 \in LaterReads(now) :
    \E read \in [DOMAIN jobs -> now..t2] :
        /\ jobs' = [j \in DOMAIN jobs |->
                       [jobs[j] EXCEPT !.is_active = TRUE,
                                       !.interval = interval_seconds,
                                       !.next_run = read[j]]]
        /\ now' = IF DOMAIN jobs = {} THEN now ELSE t2
        /\ pausedIds' = {}
        /\ lastOp' = IdOp("start_all_jobs", NoJob)
        /\ SchedOnly

\* mutant: stop_all_jobs also resets the schedule
StopAll_reset ==
    /\ jobs' = [j \in DOMAIN jobs |-> [jobs[j] EXCEPT !.is_active = FALSE,
                                                      !.next_run = now]]
    /\ pausedIds' = DOMAIN jobs
    /\ lastOp' = IdOp("stop_all_jobs", NoJob)
    /\ UNCHANGED now
    /\ SchedOnly

\* stop_all_jobs()
StopAll ==
    /\ jobs' = [j \in DOMAIN jobs |-> [jobs[j] EXCEPT !.is_active = FALSE]]
    /\ pausedIds' = DOMAIN jobs
    /\ lastOp' = IdOp("stop_all_jobs", NoJob)
    /\ UNCHANGED now
    /\ SchedOnly

\* update_job_interval(job_id, interval_seconds)
UpdateJobInterval(id, interval_seconds) ==
    /\ jobs' = IF id \in DOMAIN jobs
               THEN [jobs EXCEPT ![id] =
                       [jobs[id] EXCEPT
                           !.interval = interval_seconds,
                           !.next_run = IF jobs[id].last_run # NoTime
                                        THEN jobs[id].last_run + Delta(interval_seconds)
                                        ELSE now]]
               ELSE jobs
    /\ lastOp' = IdOp("update_job_interval", id)
    /\ UNCHANGED <<now, pausedIds>>
    /\ SchedOnly

\* mark_job_error(job_id, error)
MarkJobError(id, error) ==
    /\ jobs' = IF id \in DOMAIN jobs THEN [jobs EXCEPT ![id].last_error = error] ELSE jobs
    /\ lastOp' = OtherOp
    /\ UNCHANGED <<now, pausedIds>>
    /\ SchedOnly

\* get_job_statistics()
GetJobStatistics ==
    /\ lastOp' = [OtherOp EXCEPT !.op = "get_job_statistics",
                                 !.stats = JobStatistics(jobs)]
    /\ UNCHANGED <<now, jobs, pausedIds>>
    /\ SchedOnly

(***************************************************************************)
(* The session store: one in-memory SQLite database (SessionDatabase) and  *)
(* the per-platform helpers that run SQL on it.  A table is the set of its *)
(* rows.  Columns no helper modelled here reads back (added_at, title,     *)
(* game_name, viewer_count, started_at, the record timestamp) are left out.*)
(* Text is a sequence of one-character strings, so that strip, lower and   *)
(* replace act on it as they do in Python.                                 *)
(***************************************************************************)
MaxRowId == 2         \* rowids one entity or record table hands out
MaxChatRowId == 3     \* rowids twitch_chat_messages hands out

\* SessionDatabase.__init__ opens the connection and never issues
\* PRAGMA foreign_keys = ON; SQLite's default is OFF, so the ON DELETE CASCADE
\* clauses of _create_tables are parsed and not enforced
ForeignKeys == FALSE

Tables == {"twitch_channels", "twitch_stream_records", "twitch_chat_messages",
           "reddit_subreddits", "twitter_users", "twitter_tweets",
           "youtube_channels"}

\* the rowid AUTOINCREMENT gives the next row of a table: never one used before
NextRowId(table) == sqlite_sequence[table] + 1

RowIds == 1..MaxRowId

StoreInit ==
    /\ twitch_channels = {}
    /\ twitch_stream_records = {}
    /\ twitch_chat_messages = {}
    /\ reddit_subreddits = {}
    /\ twitter_users = {}
    /\ twitter_tweets = {}
    /\ youtube_channels = {}
    /\ sqlite_sequence = [t \in Tables |-> 0]
    /\ lastrowid = None

\* a *Database call touches neither the clock, the scheduler nor an IRC client
StoreOnly == UNCHANGED <<now, schedVars, ircVars, driver>>

(***************************************************************************)
(* str.strip, str.lower and str.replace.                                   *)
(***************************************************************************)
Whitespace == {" "}

\* the letters of the model's alphabet that have an upper case
LowerChar(c) ==
    CASE c = "F" -> "f"
      [] c = "B" -> "b"
      [] c = "R" -> "r"
      [] OTHER -> c

\* str.lower()
Lower(s) == [i \in 1..Len(s) |-> LowerChar(s[i])]

RECURSIVE LStrip(_)
LStrip(s) == IF s # <<>> /\ Head(s) \in Whitespace THEN LStrip(Tail(s)) ELSE s

RECURSIVE RStrip(_)
RStrip(s) ==
    IF s # <<>> /\ s[Len(s)] \in Whitespace THEN RStrip(SubSeq(s, 1, Len(s) - 1)) ELSE s

\* str.strip()
Strip(s) == RStrip(LStrip(s))

\* s.startswith(prefix)
StartsWith(s, prefix) ==
    Len(s) >= Len(prefix) /\ SubSeq(s, 1, Len(prefix)) = prefix

\* s.replace(old, ""): every occurrence of old, left to right, is dropped
RECURSIVE Replace(_, _)
Replace(s, old) ==
    IF s = <<>> THEN <<>>
    ELSE IF StartsWith(s, old) THEN Replace(SubSeq(s, Len(old) + 1, Len(s)), old)
    ELSE <<Head(s)>> \o Replace(Tail(s), old)

\* channel_name.strip().lower().replace("@", "")
CleanChannelName(channel_name) == Replace(Lower(Strip(channel_name)), <<"@">>)

\* subreddit_name.strip().lower().replace("r/", "")
CleanSubredditName(subreddit_name) == Replace(Lower(Strip(subreddit_name)), <<"r", "/">>)

\* what is typed into the add forms, and passed to the helpers
RawChannelNames == {<<"F", "o">>, <<"f", "o">>, <<"@", "f", "o">>, <<"b", "o">>, <<"f">>}

RawSubredditNames == {<<"F", "o">>, <<"f", "o">>, <<"r", "/", "f", "o">>, <<"b", "o">>}

\* channel names as the pages hand them on once cleaned
ChannelNames == {<<"f", "o">>, <<"b", "o">>}

(***************************************************************************)
(* Twitch: TwitchDatabase.                                                 *)
(***************************************************************************)
\* mutant: add_channel inserts without looking for the name
ChannelsAfterAdd_insert(rows, channel_name, id) ==
    rows \cup {[id |-> id, channel_name |-> channel_name, is_monitoring |-> FALSE]}

\* twitch_channels after add_channel: SELECT by the name as given, INSERT if none
ChannelsAfterAdd(rows, channel_name, id) ==
    IF \E c \in rows : c.channel_name = channel_name
    THEN rows
    ELSE rows \cup {[id |-> id, channel_name |-> channel_name, is_monitoring |-> FALSE]}

\* get_channel(channel_name): the rows the SELECT finds (at most one)
GetChannel(channel_name) == {c \in twitch_channels : c.channel_name = channel_name}

\* add_channel(channel_name)
AddChannel(channel_name) ==
    LET existing == GetChannel(channel_name)
        id == NextRowId("twitch_channels") IN
    /\ existing = {} => id <= MaxRowId
    /\ twitch_channels' = ChannelsAfterAdd(twitch_channels, channel_name, id)
    /\ sqlite_sequence' = IF existing = {}
                          THEN [sqlite_sequence EXCEPT !["twitch_channels"] = id]
                          ELSE sqlite_sequence
    /\ lastrowid' = IF existing = {} THEN id ELSE (CHOOSE c \in existing : TRUE).id
    /\ UNCHANGED <<twitch_stream_records, twitch_chat_messages, reddit_subreddits,
                   twitter_users, twitter_tweets, youtube_channels, histVars>>
    /\ StoreOnly

\* delete_channel(channel_id): DELETE FROM twitch_channels WHERE id = ?
DeleteChannel(channel_id) ==
    LET gone == {r \in twitch_stream_records : r.channel_id = channel_id} IN
    /\ twitch_channels' = {c \in twitch_channels : c.id # channel_id}
    /\ twitch_stream_records' = IF ForeignKeys THEN twitch_stream_records \ gone
                                ELSE twitch_stream_records
    /\ twitch_chat_messages' =
          IF ForeignKeys
          THEN {m \in twitch_chat_messages : \A r \in gone : m.record_id # r.id}
          ELSE twitch_chat_messages
    /\ UNCHANGED <<reddit_subreddits, twitter_users, twitter_tweets, youtube_channels,
                   sqlite_sequence, lastrowid, histVars>>
    /\ StoreOnly

\* add_stream_record(channel_id, is_live, ..., chat_message_count)
AddStreamRecord(channel_id, is_live, chat_message_count) ==
    LET id == NextRowId("twitch_stream_records") IN
    /\ id <= MaxRowId
    /\ twitch_stream_records' = twitch_stream_records \cup
          {[id |-> id, channel_id |-> channel_id, is_live |-> is_live,
            chat_message_count |-> chat_message_count]}
    /\ sqlite_sequence' = [sqlite_sequence EXCEPT !["twitch_stream_records"] = id]
    /\ lastrowid' = id
    /\ UNCHANGED <<twitch_channels, twitch_chat_messages, reddit_subreddits,
                   twitter_users, twitter_tweets, youtube_channels, histVars>>
    /\ StoreOnly

\* the rows add_chat_messages inserts for msgs, the first with rowid first
ChatRows(record_id, msgs, first) ==
    {[id |-> first + i - 1, record_id |-> record_id, username |-> msgs[i].username,
      message |-> msgs[i].message, timestamp |-> msgs[i].timestamp] : i \in 1..Len(msgs)}

\* add_chat_messages(record_id, messages)
AddChatMessages(record_id, msgs) ==
    LET first == NextRowId("twitch_chat_messages") IN
    /\ sqlite_sequence["twitch_chat_messages"] + Len(msgs) <= MaxChatRowId
    /\ twitch_chat_messages' = twitch_chat_messages \cup ChatRows(record_id, msgs, first)
    /\ sqlite_sequence' = [sqlite_sequence EXCEPT
                              !["twitch_chat_messages"] = @ + Len(msgs)]
    /\ UNCHANGED <<twitch_channels, twitch_stream_records, reddit_subreddits,
                   twitter_users, twitter_tweets, youtube_channels, lastrowid,
                   histVars>>
    /\ StoreOnly

\* the add form of pages/2_Twitch.py with both checkboxes off
AddChannelForm(channel_name) ==
    IF channel_name = <<>> \/ Len(channel_name) < 2
    THEN UNCHANGED vars
    ELSE IF GetChannel(CleanChannelName(channel_name)) # {}
    THEN UNCHANGED vars
    ELSE AddChannel(CleanChannelName(channel_name))

(***************************************************************************)
(* Reddit: RedditDatabase.                                                 *)
(***************************************************************************)
\* get_subreddit(subreddit_name)
GetSubreddit(subreddit_name) ==
    {c \in reddit_subreddits : c.subreddit_name = subreddit_name}

\* add_subreddit(subreddit_name)
AddSubreddit(subreddit_name) ==
    LET existing == GetSubreddit(subreddit_name)
        id == NextRowId("reddit_subreddits") IN
    /\ existing = {} => id <= MaxRowId
    /\ reddit_subreddits' =
          IF existing # {} THEN reddit_subreddits
          ELSE reddit_subreddits \cup
               {[id |-> id, subreddit_name |-> subreddit_name, is_monitoring |-> FALSE]}
    /\ sqlite_sequence' = IF existing = {}
                          THEN [sqlite_sequence EXCEPT !["reddit_subreddits"] = id]
                          ELSE sqlite_sequence
    /\ lastrowid' = IF existing = {} THEN id ELSE (CHOOSE c \in existing : TRUE).id
    /\ UNCHANGED <<twitch_channels, twitch_stream_records, twitch_chat_messages,
                   twitter_users, twitter_tweets, youtube_channels, histVars>>
    /\ StoreOnly

\* the add form of pages/5_Reddit.py with both checkboxes off
AddSubredditForm(subreddit_name) ==
    IF subreddit_name = <<>>
    THEN UNCHANGED vars
    ELSE IF GetSubreddit(CleanSubredditName(subreddit_name)) # {}
    THEN UNCHANGED vars
    ELSE AddSubreddit(CleanSubredditName(subreddit_name))

(***************************************************************************)
(* Twitter: TwitterDatabase.  metrics stands for the four columns          *)
(* retweet_count, like_count, reply_count and quote_count.  add_video      *)
(* (YouTubeDatabase) and add_post (RedditDatabase) have the shape of       *)
(* add_tweet: SELECT by the platform's identifier, UPDATE of the metric    *)
(* columns if a row is found, INSERT otherwise.                            *)
(***************************************************************************)
Usernames == {<<"f", "o">>}

TweetIds == {"t1", "t2"}

Texts == {"hello", "hello (edited)"}

Metrics == {[retweet_count |-> 0, like_count |-> 1, reply_count |-> 0, quote_count |-> 0],
            [retweet_count |-> 2, like_count |-> 5, reply_count |-> 1, quote_count |-> 0]}

\* the tweets api.get_user_tweets returns: [id, created_at, text, metrics]
Tweets == [id : TweetIds, created_at : {0}, text : Texts, metrics : Metrics]

\* no add_tweet yet for a tweet_id
NoRow == [id |-> 0]

HistInit ==
    /\ firstInsert = [x \in TweetIds |-> NoRow]
    /\ lastCall = [x \in TweetIds |-> NoRow]

\* get_user(username)
GetUser(username) == {u \in twitter_users : u.username = username}

\* add_user(username)
AddUser(username) ==
    LET existing == GetUser(username)
        id == NextRowId("twitter_users") IN
    /\ existing = {} => id <= MaxRowId
    /\ twitter_users' =
          IF existing # {} THEN twitter_users
          ELSE twitter_users \cup
               {[id |-> id, username |-> username, is_monitoring |-> FALSE]}
    /\ sqlite_sequence' = IF existing = {}
                          THEN [sqlite_sequence EXCEPT !["twitter_users"] = id]
                          ELSE sqlite_sequence
    /\ lastrowid' = IF existing = {} THEN id ELSE (CHOOSE u \in existing : TRUE).id
    /\ UNCHANGED <<twitch_channels, twitch_stream_records, twitch_chat_messages,
                   reddit_subreddits, twitter_tweets, youtube_channels, histVars>>
    /\ StoreOnly

\* delete_user(user_id): DELETE FROM twitter_users WHERE id = ?
DeleteUser(user_id) ==
    LET gone == {r \in twitter_tweets : r.user_id = user_id} IN
    /\ twitter_users' = {u \in twitter_users : u.id # user_id}
    /\ twitter_tweets' = IF ForeignKeys THEN twitter_tweets \ gone ELSE twitter_tweets
    /\ firstInsert' = [x \in TweetIds |->
                          IF ForeignKeys /\ \E r \in gone : r.tweet_id = x
                          THEN NoRow ELSE firstInsert[x]]
    /\ lastCall' = [x \in TweetIds |->
                       IF ForeignKeys /\ \E r \in gone : r.tweet_id = x
                       THEN NoRow ELSE lastCall[x]]
    /\ UNCHANGED <<twitch_channels, twitch_stream_records, twitch_chat_messages,
                   reddit_subreddits, youtube_channels, sqlite_sequence, lastrowid>>
    /\ StoreOnly

\* the row add_tweet inserts; collected_at defaults to CURRENT_TIMESTAMP
TweetRow(id, user_id, tweet, t) ==
    [id |-> id, user_id |-> user_id, tweet_id |-> tweet.id,
     created_at |-> tweet.created_at, text |-> tweet.text, metrics |-> tweet.metrics,
     collected_at |-> Seconds(t)]

\* mutant: add_tweet replaces the row it finds (INSERT OR REPLACE)
TweetsAfterAdd_replace(rows, id, user_id, tweet, t) ==
    {r \in rows : r.tweet_id # tweet.id} \cup {TweetRow(id, user_id, tweet, t)}

\* twitter_tweets after add_tweet: UPDATE of the metrics WHERE tweet_id = ?, or INSERT
TweetsAfterAdd(rows, id, user_id, tweet, t) ==
    IF \E r \in rows : r.tweet_id = tweet.id
    THEN {IF r.tweet_id = tweet.id THEN [r EXCEPT !.metrics = tweet.metrics] ELSE r :
             r \in rows}
    ELSE rows \cup {TweetRow(id, user_id, tweet, t)}

\* add_tweet(user_id, tweet_id, created_at, text, retweet_count, ...)
AddTweet(user_id, tweet) ==
    LET existing == {r \in twitter_tweets : r.tweet_id = tweet.id}
        id == NextRowId("twitter_tweets") IN
    /\ existing = {} => id <= MaxRowId
    /\ twitter_tweets' = TweetsAfterAdd(twitter_tweets, id, user_id, tweet, now)
    /\ sqlite_sequence' = IF existing = {}
                          THEN [sqlite_sequence EXCEPT !["twitter_tweets"] = id]
                          ELSE sqlite_sequence
    /\ firstInsert' = IF existing = {}
                      THEN [firstInsert EXCEPT ![tweet.id] = TweetRow(id, user_id, tweet, now)]
                      ELSE firstInsert
    /\ lastCall' = [lastCall EXCEPT ![tweet.id] =
                                [text |-> tweet.text, metrics |-> tweet.metrics]]
    /\ UNCHANGED <<twitch_channels, twitch_stream_records, twitch_chat_messages,
                   reddit_subreddits, twitter_users, youtube_channels, lastrowid>>
    /\ StoreOnly

(***************************************************************************)
(* The Twitch IRC client (TwitchIRCClient) and the collection cycle that   *)
(* uses it (collect_twitch_data).  What recv returns is a sequence of      *)
(* tokens: words, and the separators the client looks for (":", "!", " "   *)
(* and the line end), each one token.                                      *)
(***************************************************************************)
MaxReads == 3         \* recv calls of one collect_messages call
MaxChunkLines == 2    \* lines one recv delivers

CRLF == "\r\n"

\* the keepalive challenge of the server
Ping == <<"PING", " ", ":", "tmi.twitch.tv">>

\* a chat line: :nick!nick@nick.tmi.twitch.tv PRIVMSG #fo :hello
Chat == <<":", "nick", "!", "nick@nick.tmi.twitch.tv", " ", "PRIVMSG", " ",
          "#fo", " ", ":", "hello">>

\* a chat line that lost its prefix and the colon before the text
Malformed == <<"nick", " ", "PRIVMSG", " ", "#fo", " ", "hello">>

\* a server line that is neither a challenge nor chat
Notice == <<":", "tmi.twitch.tv", " ", "NOTICE", " ", "*", " ", ":", "hi">>

Lines == {Ping, Chat, Malformed, Notice}

\* the lines ls as they come over the wire, each ended by the line end
RECURSIVE Wire(_)
Wire(ls) == IF ls = <<>> THEN <<>> ELSE Head(ls) \o <<CRLF>> \o Wire(Tail(ls))

\* what one recv(2048) can return: some whole lines, or nothing (peer closed)
Chunks ==
    {<<>>} \cup
    UNION {{Wire(ls) : ls \in [1..n -> Lines]} : n \in 1..MaxChunkLines}

\* s.split(sep, maxsplit)
RECURSIVE SplitN(_, _, _)
SplitN(s, sep, maxsplit) ==
    IF maxsplit = 0 \/ ~\E i \in 1..Len(s) : s[i] = sep
    THEN <<s>>
    ELSE LET i == CHOOSE i \in 1..Len(s) : s[i] = sep /\ \A j \in 1..(i - 1) : s[j] # sep
         IN <<SubSeq(s, 1, i - 1)>> \o SplitN(SubSeq(s, i + 1, Len(s)), sep, maxsplit - 1)

\* s.split(sep)
Split(s, sep) == SplitN(s, sep, Len(s))

\* 'PRIVMSG' in line
IsPrivmsg(line) == \E i \in 1..Len(line) : line[i] = "PRIVMSG"

\* what one line adds to message_count
Counted(line) == IF IsPrivmsg(line) THEN 1 ELSE 0

\* what one line appends to messages, read at clock value t
Parsed(line, t) ==
    LET parts == SplitN(line, ":", 2) IN
    IF IsPrivmsg(line) /\ Len(parts) >= 3
    THEN <<[username |-> Split(parts[2], "!")[1], message |-> parts[3], timestamp |-> t]>>
    ELSE <<>>

RECURSIVE CountedAll(_)
CountedAll(ls) == IF ls = <<>> THEN 0 ELSE Counted(Head(ls)) + CountedAll(Tail(ls))

RECURSIVE ParsedAll(_, _)
ParsedAll(ls, t) == IF ls = <<>> THEN <<>> ELSE Parsed(Head(ls), t) \o ParsedAll(Tail(ls), t)

\* history: the PING lines among the lines of a response
RECURSIVE PingLines(_)
PingLines(ls) ==
    IF ls = <<>> THEN 0
    ELSE (IF StartsWith(Head(ls), <<"PING">>) THEN 1 ELSE 0) + PingLines(Tail(ls))

\* no collect_messages call in progress.  During one, caller is "cycle" when
\* collect_twitch_data made the call for channel_id, and "direct" otherwise
NoCycle == [pc |-> "idle", caller |-> None, channel_id |-> 0, is_live |-> FALSE]

\* api.get_stream_info: None, or the stream's state
StreamInfos == {[ok |-> FALSE, is_live |-> FALSE], [ok |-> TRUE, is_live |-> FALSE],
                [ok |-> TRUE, is_live |-> TRUE]}

IrcInit ==
    /\ sock = None
    /\ running = FALSE
    /\ messages = <<>>
    /\ message_count = 0
    /\ pongs = 0
    /\ pings = 0
    /\ reads = 0
    /\ cycle = NoCycle
    /\ chat_data = [message_count |-> 0, messages |-> <<>>]
    /\ raised = FALSE
    /\ collected = None

\* mutant: the cycle keeps one stream record per channel
StoreCycle_replace(seq, channel_id, is_live, chat_count, chat_messages) ==
    LET record_id == seq["twitch_stream_records"] + 1
        first == seq["twitch_chat_messages"] + 1 IN
    /\ twitch_stream_records' =
          {r \in twitch_stream_records : r.channel_id # channel_id} \cup
          {[id |-> record_id, channel_id |-> channel_id, is_live |-> is_live,
            chat_message_count |-> chat_count]}
    /\ twitch_chat_messages' =
          twitch_chat_messages \cup ChatRows(record_id, chat_messages, first)
    /\ sqlite_sequence' = [seq EXCEPT !["twitch_stream_records"] = record_id,
                                      !["twitch_chat_messages"] = @ + Len(chat_messages)]
    /\ lastrowid' = record_id

\* the tail of collect_twitch_data: add_stream_record with the chat count, then
\* add_chat_messages if any message was collected; seq is sqlite_sequence as
\* the calls before left it
StoreCycle(seq, channel_id, is_live, chat_count, chat_messages) ==
    LET record_id == seq["twitch_stream_records"] + 1
        first == seq["twitch_chat_messages"] + 1 IN
    /\ twitch_stream_records' = twitch_stream_records \cup
          {[id |-> record_id, channel_id |-> channel_id, is_live |-> is_live,
            chat_message_count |-> chat_count]}
    /\ twitch_chat_messages' =
          twitch_chat_messages \cup ChatRows(record_id, chat_messages, first)
    /\ sqlite_sequence' = [seq EXCEPT !["twitch_stream_records"] = record_id,
                                      !["twitch_chat_messages"] = @ + Len(chat_messages)]
    /\ lastrowid' = record_id

\* collect_twitch_data(channel_name, db, collect_chat) up to its first recv:
\* the API fetch, get_channel / add_channel and, if chat is asked for and the
\* stream is live, a new TwitchIRCClient whose collect_messages connects
\* (connected = FALSE: connect raises, and the cycle goes on without chat).
\* The caller's own state is the caller's to step: auto_run_jobs, or nobody
CollectTwitchData(channel_name, collect_chat, stream_info, connected) ==
    LET existing == GetChannel(channel_name)
        channel_id == IF existing = {} THEN NextRowId("twitch_channels")
                      ELSE (CHOOSE c \in existing : TRUE).id
        seq == IF existing = {}
               THEN [sqlite_sequence EXCEPT !["twitch_channels"] = channel_id]
               ELSE sqlite_sequence
        chat == collect_chat /\ stream_info.is_live IN
    /\ cycle.pc = "idle"
    /\ NextRowId("twitch_stream_records") <= MaxRowId
    /\ existing = {} => channel_id <= MaxRowId
    /\ IF ~stream_info.ok
       THEN /\ collected' = "False"
            /\ UNCHANGED <<storeVars, sock, running, messages, message_count, pongs,
                           pings, reads, cycle, chat_data, raised>>
       ELSE /\ twitch_channels' = ChannelsAfterAdd(twitch_channels, channel_name, channel_id)
            /\ IF chat /\ connected
               THEN /\ sqlite_sequence' = seq
                    /\ lastrowid' = channel_id
                    /\ cycle' = [pc |-> "loop", caller |-> "cycle",
                                 channel_id |-> channel_id,
                                 is_live |-> stream_info.is_live]
                    /\ UNCHANGED <<twitch_stream_records, twitch_chat_messages,
                                   youtube_channels, collected>>
               ELSE /\ StoreCycle(seq, channel_id, stream_info.is_live, 0, <<>>)
                    /\ collected' = "True"
                    /\ UNCHANGED cycle
            /\ IF chat
               THEN /\ sock' = IF connected THEN "open" ELSE "created"
                    /\ running' = connected
                    /\ messages' = <<>>
                    /\ message_count' = 0
                    /\ pongs' = 0
                    /\ pings' = 0
                    /\ reads' = 0
                    /\ raised' = ~connected
               ELSE UNCHANGED <<sock, running, messages, message_count, pongs, pings,
                                reads, raised>>
            /\ UNCHANGED <<reddit_subreddits, twitter_users, twitter_tweets,
                           youtube_channels, chat_data>>
    /\ UNCHANGED <<now, schedVars, histVars>>

\* TwitchIRCClient(channel, token): a new client object
NewClient ==
    /\ cycle.pc = "idle"
    /\ sock' = None
    /\ running' = FALSE
    /\ messages' = <<>>
    /\ message_count' = 0
    /\ pongs' = 0
    /\ pings' = 0
    /\ reads' = 0
    /\ raised' = FALSE
    /\ UNCHANGED <<now, schedVars, storeVars, histVars, cycle, chat_data, collected,
                   driver>>

\* collect_messages called on the client as it is, up to the while loop: it
\* connects only if there is no socket object yet (connected = FALSE: connect
\* raises, outside any try, after it made the socket object)
CollectMessages(connected) ==
    /\ cycle.pc = "idle"
    /\ IF sock = None
       THEN /\ sock' = IF connected THEN "open" ELSE "created"
            /\ running' = connected
            /\ raised' = ~connected
            /\ cycle' = IF connected THEN [NoCycle EXCEPT !.pc = "loop", !.caller = "direct"]
                        ELSE NoCycle
       ELSE /\ raised' = FALSE
            /\ cycle' = [NoCycle EXCEPT !.pc = "loop", !.caller = "direct"]
            /\ UNCHANGED <<sock, running>>
    /\ pongs' = 0
    /\ pings' = 0
    /\ reads' = 0
    /\ UNCHANGED <<now, schedVars, storeVars, histVars, messages, message_count,
                   chat_data, collected, driver>>

\* collect_messages returns its two fields.  To collect_twitch_data: the cycle
\* goes on with irc_client.disconnect() and the store calls
Return ==
    /\ chat_data' = [message_count |-> message_count, messages |-> messages]
    /\ raised' = FALSE
    /\ cycle' = NoCycle
    /\ IF cycle.caller = "cycle"
       THEN /\ running' = FALSE
            /\ sock' = "closed"
            /\ StoreCycle(sqlite_sequence, cycle.channel_id, cycle.is_live,
                          message_count, messages)
            /\ collected' = "True"
            /\ UNCHANGED <<twitch_channels, reddit_subreddits, twitter_users,
                           twitter_tweets, youtube_channels>>
       ELSE UNCHANGED <<running, sock, storeVars, collected>>
    /\ UNCHANGED <<now, schedVars, histVars, messages, message_count, pongs, pings,
                   reads, driver>>

\* the while condition holds: the call enters sock.recv(2048).  The socket has
\* no timeout, so the call stays there until the server delivers or the
\* connection breaks
EnterRecv ==
    /\ cycle.pc = "loop"
    /\ running
    /\ reads < MaxReads
    /\ cycle' = [cycle EXCEPT !.pc = "recv"]
    /\ UNCHANGED <<now, schedVars, storeVars, histVars, sock, running, messages,
                   message_count, pongs, pings, reads, chat_data, raised, collected,
                   driver>>

\* recv returns response: the rest of this turn of the loop
Recv(response) ==
    LET ls == Split(response, CRLF)
        ping == StartsWith(response, <<"PING">>)
        msgs == IF ping THEN messages ELSE messages \o ParsedAll(ls, now)
        count == IF ping THEN message_count ELSE message_count + CountedAll(ls) IN
    /\ cycle.pc = "recv"
    /\ sqlite_sequence["twitch_chat_messages"] + Len(msgs) <= MaxChatRowId
    /\ count <= MaxReads * MaxChunkLines
    /\ reads' = reads + 1
    /\ pings' = pings + PingLines(ls)
    /\ pongs' = IF ping THEN pongs + 1 ELSE pongs
    /\ messages' = msgs
    /\ message_count' = count
    /\ cycle' = [cycle EXCEPT !.pc = "loop"]
    /\ UNCHANGED <<now, schedVars, storeVars, histVars, sock, running, chat_data,
                   raised, collected, driver>>

\* recv, or the send of PONG, raises: except Exception prints and breaks out
\* of the loop
RecvRaises ==
    /\ cycle.pc = "recv"
    /\ Return

\* the while condition fails: the duration is over, or the client is not running
Deadline ==
    /\ cycle.pc = "loop"
    /\ Return

\* mutant: disconnect() closes the socket outside any try
DisconnectRaises_close(s, close_raises) == s # None /\ close_raises

\* whether disconnect() raises: sock.close() sits in a try with a bare except
DisconnectRaises(s, close_raises) == FALSE

\* disconnect() (close_raises: sock.close() raises)
Disconnect(close_raises) ==
    /\ cycle.pc = "idle"
    /\ running' = FALSE
    /\ sock' = IF sock = None THEN None ELSE "closed"
    /\ raised' = DisconnectRaises(sock, close_raises)
    /\ UNCHANGED <<now, schedVars, storeVars, histVars, messages, message_count,
                   pongs, pings, reads, cycle, chat_data, collected, driver>>

(***************************************************************************)
(* The driver: auto_run_jobs of pages/Twitch.py, which the channel list    *)
(* calls on every run of the page while auto-refresh is on, and            *)
(* check_and_run_due_jobs, which the sidebar calls on every run of the     *)
(* application.  A Streamlit session runs its script in one thread, so     *)
(* nothing else of the session runs while auto_run_jobs does.              *)
(***************************************************************************)
\* auto_run_jobs is not running
NoDriver == [pc |-> "idle", todo |-> {}, job |-> NoJob, jobs_to_run |-> {}]

DriverInit == driver = NoDriver

\* (entity_id, entity_name) of the channel whose jobs the driver runs
DriverEntities == {[id |-> 1, name |-> <<"f", "o">>]}

\* what the server delivers while the driver collects chat
DriverChunks == {Wire(<<Chat>>)}

\* mutant: the due-check takes a lease on what it returns
CheckAndRunDueJobs_lease ==
    LET due == DueSet(jobs, now, None) IN
    /\ driver.pc = "idle"
    /\ driver' = IF due # {} THEN [driver EXCEPT !.jobs_to_run = due] ELSE driver
    /\ jobs' = [j \in DOMAIN jobs |->
                   IF j \in due
                   THEN [jobs[j] EXCEPT !.next_run = now + jobs[j].interval * TicksPerSec]
                   ELSE jobs[j]]
    /\ lastOp' = Op("get_jobs_due_for_run", NoJob, None, due, lastOp.op, lastOp.id)
    /\ UNCHANGED <<now, pausedIds, storeVars, histVars, ircVars>>

\* check_and_run_due_jobs(): the due-check of the sidebar; nothing reads
\* st.session_state.jobs_to_run
CheckAndRunDueJobs ==
    LET due == DueSet(jobs, now, None) IN
    /\ driver.pc = "idle"
    /\ driver' = IF due # {} THEN [driver EXCEPT !.jobs_to_run = due] ELSE driver
    /\ lastOp' = Op("get_jobs_due_for_run", NoJob, None, due, lastOp.op, lastOp.id)
    /\ UNCHANGED <<now, jobs, pausedIds, storeVars, histVars, ircVars>>

\* auto_run_jobs(), up to its loop: the due-check
AutoRunJobs ==
    LET due == DueSet(jobs, now, None) IN
    /\ driver.pc = "idle"
    /\ cycle.pc = "idle"
    /\ driver' = [driver EXCEPT !.pc = IF due = {} THEN "idle" ELSE "run",
                                !.todo = due]
    /\ lastOp' = Op("get_jobs_due_for_run", NoJob, None, due, lastOp.op, lastOp.id)
    /\ UNCHANGED <<now, jobs, pausedIds, storeVars, histVars, ircVars>>

\* the driver after it is through with job j
DriverAfter(j) ==
    [driver EXCEPT !.pc = IF driver.todo \ {j} = {} THEN "idle" ELSE "run",
                   !.todo = driver.todo \ {j},
                   !.job = NoJob]

\* one turn of the loop for a job whose platform is not "twitch": nothing
DriverSkip(j) ==
    /\ driver.pc = "run"
    /\ j \in driver.todo
    /\ jobs[j].platform # "twitch"
    /\ driver' = DriverAfter(j)
    /\ UNCHANGED <<now, schedVars, storeVars, histVars, ircVars>>

\* one turn of the loop for a twitch job: it calls collect_twitch_data
DriverCollect(j, collect_chat, stream_info, connected) ==
    /\ driver.pc = "run"
    /\ j \in driver.todo
    /\ jobs[j].platform = "twitch"
    /\ jobs[j].total_runs < MaxRuns
    /\ CollectTwitchData(jobs[j].entity_name, collect_chat, stream_info, connected)
    /\ driver' = [driver EXCEPT !.pc = "collect", !.job = j]

\* collect_twitch_data has returned: mark_job_run(job.id, success=success)
DriverMark ==
    LET j == driver.job IN
    /\ driver.pc = "collect"
    /\ cycle.pc = "idle"
    /\ \E t2 \in LaterReads(now) :
          /\ jobs' = IF j \in DOMAIN jobs
                     THEN [jobs EXCEPT ![j] = MarkedJob(jobs[j], now, t2,
                                                        collected = "True", None)]
                     ELSE jobs
          /\ now' = IF j \in DOMAIN jobs THEN t2 ELSE now
    /\ lastOp' = OtherOp
    /\ driver' = DriverAfter(j)
    /\ UNCHANGED <<pausedIds, storeVars, histVars, ircVars>>

(***************************************************************************)
(* The buttons of the application: the channel list of pages/Twitch.py     *)
(* and the sidebar of streamlit_app.py.                                    *)
(***************************************************************************)
\* set_monitoring(channel_id, is_monitoring): UPDATE ... WHERE id = ?
SetMonitoring(rows, channel_id, is_monitoring) ==
    {IF c.id = channel_id THEN [c EXCEPT !.is_monitoring = is_monitoring] ELSE c :
        c \in rows}

\* [j for j in get_jobs_by_platform("twitch") if j.entity_id == channel_id]
ChannelJobs(channel_id) ==
    {j \in DOMAIN jobs : jobs[j].platform = "twitch" /\ jobs[j].entity_id = channel_id}

\* Start, shown for a channel without a job: add_job, set_monitoring(True)
StartButton(c, interval_minutes) ==
    \E t2 \in LaterReads(now) :
        LET id == JobId("twitch", c.id, now)
            entity == [id |-> c.id, name |-> c.channel_name] IN
        /\ ChannelJobs(c.id) = {}
        /\ Cardinality(DOMAIN jobs \cup {id}) <= MaxJobs
        /\ jobs' = Put(jobs, id, MonitoringJob(id, "twitch", entity, interval_minutes, t2))
        /\ now' = t2
        /\ lastOp' = IdOp("add_job", id)
        /\ twitch_channels' = SetMonitoring(twitch_channels, c.id, TRUE)
        /\ UNCHANGED <<pausedIds, twitch_stream_records, twitch_chat_messages,
                       reddit_subreddits, twitter_users, twitter_tweets,
                       youtube_channels, sqlite_sequence, lastrowid, histVars, ircVars,
                       driver>>

\* Pause, shown for a channel whose job is active: pause_job, set_monitoring(False)
PauseButton(c) ==
    \E j \in ChannelJobs(c.id) :
        /\ jobs[j].is_active
        /\ jobs' = [jobs EXCEPT ![j].is_active = FALSE]
        /\ pausedIds' = pausedIds \cup {j}
        /\ lastOp' = OtherOp
        /\ twitch_channels' = SetMonitoring(twitch_channels, c.id, FALSE)
        /\ UNCHANGED <<now, twitch_stream_records, twitch_chat_messages,
                       reddit_subreddits, twitter_users, twitter_tweets,
                       youtube_channels, sqlite_sequence, lastrowid, histVars, ircVars,
                       driver>>

\* Resume, shown for a channel whose job is paused: resume_job, set_monitoring(True)
ResumeButton(c) ==
    \E j \in ChannelJobs(c.id) :
        /\ ~jobs[j].is_active
        /\ jobs' = [jobs EXCEPT ![j] = ResumedJob(jobs[j], now)]
        /\ pausedIds' = pausedIds \ {j}
        /\ lastOp' = IdOp("resume_job", j)
        /\ twitch_channels' = SetMonitoring(twitch_channels, c.id, TRUE)
        /\ UNCHANGED <<now, twitch_stream_records, twitch_chat_messages,
                       reddit_subreddits, twitter_users, twitter_tweets,
                       youtube_channels, sqlite_sequence, lastrowid, histVars, ircVars,
                       driver>>

\* Delete, confirmed: remove_job of the channel's job if it has one, delete_channel
DeleteButton(c) ==
    /\ jobs' = [j \in DOMAIN jobs \ ChannelJobs(c.id) |-> jobs[j]]
    /\ pausedIds' = pausedIds \ ChannelJobs(c.id)
    /\ lastOp' = OtherOp
    /\ twitch_channels' = {d \in twitch_channels : d.id # c.id}
    /\ UNCHANGED <<now, twitch_stream_records, twitch_chat_messages, reddit_subreddits,
                   twitter_users, twitter_tweets, youtube_channels, sqlite_sequence,
                   lastrowid, histVars, ircVars, driver>>

\* Clear All Data, confirmed: reset_session_db() makes a new, empty database,
\* clear_all_jobs() an empty job dict
ClearAllButton ==
    /\ jobs' = <<>>
    /\ pausedIds' = {}
    /\ lastOp' = OtherOp
    /\ twitch_channels' = {}
    /\ twitch_stream_records' = {}
    /\ twitch_chat_messages' = {}
    /\ reddit_subreddits' = {}
    /\ twitter_users' = {}
    /\ twitter_tweets' = {}
    /\ youtube_channels' = {}
    /\ sqlite_sequence' = [t \in Tables |-> 0]
    /\ lastrowid' = None
    /\ UNCHANGED <<now, histVars, ircVars, driver>>

(***************************************************************************)
(* YouTube: YouTubeDatabase, collect_youtube_data and the add form of      *)
(* pages/4_YouTube.py.  The API is taken to return no video, so            *)
(* youtube_videos stays as it is.                                          *)
(***************************************************************************)
\* what api.search_channel / api.get_channel_info returns for a channel that
\* is found: YouTube's channel id and the title
YouTubeChannelInfos == {[id |-> "UCa", title |-> "a"], [id |-> "UCb", title |-> "b"]}

\* what it returns when no channel is found: None
NoChannelInfo == [id |-> None, title |-> None]

\* get_channel(channel_id)
GetYouTubeChannel(channel_id) ==
    {c \in youtube_channels : c.channel_id = channel_id}

\* the table after get_channel / add_channel(channel_id, channel_name) at
\* clock value t, id being the rowid of a new row
YouTubeChannelsAfterAdd(rows, channel_id, channel_name, id, t) ==
    IF \E c \in rows : c.channel_id = channel_id
    THEN rows
    ELSE rows \cup {[id |-> id, channel_id |-> channel_id,
                     channel_name |-> channel_name, added_at |-> Seconds(t),
                     is_monitoring |-> FALSE]}

\* the rows get_all_channels() can return first: ORDER BY added_at DESC leaves
\* the order of rows added in the same second open
FirstOfAllChannels(rows) ==
    {c \in rows : \A d \in rows : d.added_at <= c.added_at}

\* the youtube jobs whose entity is the row channel_id
YouTubeJobs(js, channel_id) ==
    {j \in DOMAIN js : js[j].platform = "youtube" /\ js[j].entity_id = channel_id}

\* Add Channel submitted with "Collect data immediately" ticked:
\* collect_youtube_data and, if it returns True and "Start monitoring job" is
\* ticked, add_job and set_monitoring for channels[0] of get_all_channels().
YouTubeAddForm(channel_info, start_monitoring, interval) ==
    IF channel_info = NoChannelInfo
    THEN UNCHANGED vars
    ELSE
    LET existing == GetYouTubeChannel(channel_info.id)
        rowid == NextRowId("youtube_channels")
        db_channel_id == IF existing = {} THEN rowid
                         ELSE (CHOOSE c \in existing : TRUE).id
        rows == YouTubeChannelsAfterAdd(youtube_channels, channel_info.id,
                                        channel_info.title, rowid, now) IN
    /\ existing = {} => rowid <= MaxRowId
    /\ sqlite_sequence' = IF existing = {}
                          THEN [sqlite_sequence EXCEPT !["youtube_channels"] = rowid]
                          ELSE sqlite_sequence
    /\ lastrowid' = db_channel_id
    /\ IF start_monitoring
       THEN \E latest_channel \in FirstOfAllChannels(rows), t2 \in LaterReads(now) :
               LET id == JobId("youtube", latest_channel.id, now)
                   entity == [id |-> latest_channel.id,
                              name |-> latest_channel.channel_name] IN
               /\ Cardinality(DOMAIN jobs \cup {id}) <= MaxJobs
               /\ jobs' = Put(jobs, id, MonitoringJob(id, "youtube", entity, interval, t2))
               /\ now' = t2
               /\ lastOp' = IdOp("add_job", id)
               /\ youtube_channels' = SetMonitoring(rows, latest_channel.id, TRUE)
       ELSE /\ youtube_channels' = rows
            /\ UNCHANGED <<now, jobs, lastOp>>
    /\ UNCHANGED <<pausedIds, twitch_channels, twitch_stream_records,
                   twitch_chat_messages, reddit_subreddits, twitter_users,
                   twitter_tweets, histVars, ircVars, driver>>

(***************************************************************************)
(* The specifications.                                                     *)
(***************************************************************************)
Init ==
    /\ now = 0
    /\ SchedInit
    /\ StoreInit
    /\ HistInit
    /\ IrcInit
    /\ DriverInit

\* the ids a caller passes: those of the jobs present, and one of no job
AbsentId == JobId("twitter", 7, 0)

JobIds == DOMAIN jobs \cup {AbsentId}

Next ==
    \/ Tick
    \/ \E p \in Platforms, e \in Entities, m \in IntervalMinutes : AddJob(p, e, m)
    \/ \E id \in JobIds : RemoveJob(id)
    \/ \E id \in JobIds : PauseJob(id)
    \/ \E id \in JobIds : ResumeJob(id)
    \/ \E p \in Platforms \cup {None} : DueJobs(p)
    \/ \E id \in JobIds : MarkRun(id, TRUE, None)
    \/ \E id \in JobIds, e \in Errors : MarkRun(id, FALSE, e)
    \/ \E s \in IntervalSeconds : StartAll(s)
    \/ StopAll
    \/ GetJobStatistics

Spec == Init /\ [][Next]_vars

\* the messages collect_twitch_data hands to add_chat_messages: never empty
ChatBatches ==
    LET m == [username |-> <<"nick">>, message |-> <<"hello">>, timestamp |-> 0]
    IN {<<m>>, <<m, m>>}

ChatCounts == {0}

\* the Twitch tables under the calls of TwitchDatabase
NextStore ==
    \/ \E name \in ChannelNames : AddChannel(name)
    \/ \E id \in RowIds : DeleteChannel(id)
    \/ \E c \in twitch_channels, live \in BOOLEAN, n \in ChatCounts :
          AddStreamRecord(c.id, live, n)
    \/ \E r \in twitch_stream_records, msgs \in ChatBatches : AddChatMessages(r.id, msgs)

SpecStore == Init /\ [][NextStore]_vars

\* entities added by name, through the helpers and through the add forms
NextKeys ==
    \/ \E k \in RawChannelNames : AddChannel(k)
    \/ \E k \in RawChannelNames : AddChannelForm(k)
    \/ \E k \in RawSubredditNames : AddSubreddit(k)
    \/ \E k \in RawSubredditNames : AddSubredditForm(k)

SpecKeys == Init /\ [][NextKeys]_vars

\* intervals a caller can pass: add_job and update_job_interval take any int
AnyInterval == {-1, 0, 1}

\* names a caller can pass to add_channel, the empty one among them
AnyChannelNames == {<<>>, <<"f", "o">>}

\* what can be typed into the add form: a name, blanks, sigils
TypedChannelNames == {<<"f", "o">>, <<" ", " ">>, <<"@", "@">>}

\* jobs and channels added with whatever the caller passes
NextBoundary ==
    \/ Tick
    \/ \E p \in Platforms, e \in Entities, m \in AnyInterval : AddJob(p, e, m)
    \/ \E id \in JobIds, i \in AnyInterval : UpdateJobInterval(id, i)
    \/ \E k \in AnyChannelNames : AddChannel(k)
    \/ \E k \in TypedChannelNames : AddChannelForm(k)

SpecBoundary == Init /\ [][NextBoundary]_vars

\* the Twitter tables under the calls of TwitterDatabase, as time passes
NextUpsert ==
    \/ Tick
    \/ \E name \in Usernames : AddUser(name)
    \/ \E id \in RowIds : DeleteUser(id)
    \/ \E u \in twitter_users, tweet \in Tweets : AddTweet(u.id, tweet)

SpecUpsert == Init /\ [][NextUpsert]_vars

\* Twitch collection cycles, one at a time
NextIrc ==
    \/ \E name \in ChannelNames, collect_chat \in BOOLEAN, info \in StreamInfos,
          connected \in BOOLEAN :
             CollectTwitchData(name, collect_chat, info, connected) /\ UNCHANGED driver
    \/ EnterRecv
    \/ \E response \in Chunks : Recv(response)
    \/ RecvRaises
    \/ Deadline

SpecIrc == Init /\ [][NextIrc]_vars

\* the scheduler under the driver: jobs are added between two runs of the
\* page, the driver runs those that are due
NextDriver ==
    \/ Tick
    \/ \E p \in Platforms, e \in DriverEntities, m \in IntervalMinutes :
          driver.pc = "idle" /\ AddJob(p, e, m)
    \/ CheckAndRunDueJobs
    \/ AutoRunJobs
    \/ \E j \in DOMAIN jobs : DriverSkip(j)
    \/ \E j \in DOMAIN jobs, collect_chat \in BOOLEAN, info \in StreamInfos,
          connected \in BOOLEAN : DriverCollect(j, collect_chat, info, connected)
    \/ EnterRecv
    \/ \E response \in DriverChunks : Recv(response)
    \/ RecvRaises
    \/ Deadline
    \/ DriverMark

SpecDriver == Init /\ [][NextDriver]_vars

\* channels and their jobs under the buttons of the application; Start All
\* and Stop All of the sidebar call start_all_jobs and stop_all_jobs and
\* nothing else that is modelled
NextPage ==
    \/ Tick
    \/ \E k \in ChannelNames : AddChannel(k)
    \/ \E c \in twitch_channels, m \in IntervalMinutes : StartButton(c, m)
    \/ \E c \in twitch_channels : PauseButton(c)
    \/ \E c \in twitch_channels : ResumeButton(c)
    \/ \E c \in twitch_channels : DeleteButton(c)
    \/ \E i \in IntervalSeconds : StartAll(i)
    \/ StopAll
    \/ ClearAllButton

SpecPage == Init /\ [][NextPage]_vars

\* the jobs of one platform under every JobManager call that reads or writes
\* a job's schedule
NextSchedule ==
    \/ Tick
    \/ \E e \in Entities, m \in IntervalMinutes : AddJob("twitch", e, m)
    \/ \E id \in JobIds : RemoveJob(id)
    \/ \E id \in JobIds : PauseJob(id)
    \/ \E id \in JobIds : ResumeJob(id)
    \/ \E p \in {"twitch", None} : DueJobs(p)
    \/ \E id \in JobIds : MarkRun(id, TRUE, None)
    \/ \E id \in JobIds, e \in Errors : MarkRun(id, FALSE, e)
    \/ \E i \in IntervalSeconds : StartAll(i)
    \/ StopAll
    \/ GetJobStatistics
    \/ \E id \in JobIds, i \in IntervalSeconds : UpdateJobInterval(id, i)
    \/ \E id \in JobIds, e \in Errors : MarkJobError(id, e)

SpecSchedule == Init /\ [][NextSchedule]_vars

\* the YouTube add form, submitted again and again as time passes
NextYouTube ==
    \/ Tick
    \/ \E channel_info \in YouTubeChannelInfos \cup {NoChannelInfo},
          start_monitoring \in BOOLEAN, interval \in IntervalMinutes :
             YouTubeAddForm(channel_info, start_monitoring, interval)

SpecYouTube == Init /\ [][NextYouTube]_vars

\* one TwitchIRCClient after another, used directly
NextClient ==
    \/ NewClient
    \/ \E connected \in BOOLEAN : CollectMessages(connected)
    \/ EnterRecv
    \/ \E response \in Chunks : Recv(response)
    \/ RecvRaises
    \/ Deadline
    \/ \E close_raises \in BOOLEAN : Disconnect(close_raises)

SpecClient == Init /\ [][NextClient]_vars

\* the same, with the client's own steps taken whenever they stay possible: it
\* tests the while condition and, when the condition fails, returns.  Nothing
\* makes the server deliver a line or the connection break
SpecClientLive == SpecClient /\ WF_vars(EnterRecv) /\ WF_vars(Deadline)

(***************************************************************************)
(* Claims about the scheduler.                                             *)
(***************************************************************************)
\* the due-check in lastOp was unfiltered or filtered by job id's platform
Covers(id) == lastOp.filter \in {None, jobs[id].platform}

\* C3: a get_jobs_due_for_run call made directly after the add_job that created a
\* job (only time may pass in between) returns that job: the new job is active,
\* has total_runs = 0 and a next_run no later than the time of the due-check.
C3_AddThenDue ==
    (/\ lastOp.op = "get_jobs_due_for_run"
     /\ lastOp.prevOp = "add_job"
     /\ Covers(lastOp.prevId))
    => /\ lastOp.prevId \in lastOp.due
       /\ jobs[lastOp.prevId].is_active
       /\ jobs[lastOp.prevId].total_runs = 0
       /\ jobs[lastOp.prevId].next_run <= now

\* C3 witness: a due-check filtered by platform, made some time after the
\* add_job before it, returned the new job
C3_Witness ==
    /\ lastOp.op = "get_jobs_due_for_run"
    /\ lastOp.prevOp = "add_job"
    /\ lastOp.filter # None
    /\ lastOp.prevId \in lastOp.due
    /\ jobs[lastOp.prevId].next_run < now

\* C4 (as claimed): no due-check returns a job id that was paused and not since
\* resumed or started by start_all_jobs, and the due-check directly after
\* resume_job(j) returns j.
C4_PauseResume ==
    lastOp.op = "get_jobs_due_for_run"
    => /\ lastOp.due \cap pausedIds = {}
       /\ (/\ lastOp.prevOp = "resume_job"
           /\ lastOp.prevId \in DOMAIN jobs
           /\ Covers(lastOp.prevId))
          => lastOp.prevId \in lastOp.due

\* C5 (as claimed): mark_job_run(j, success=True) leaves next_run = last_run +
\* interval exactly, and a due-check returns the active job j exactly when its
\* next_run has passed.
C5_NextRunExact ==
    [][/\ \A id \in DOMAIN jobs :
            MarkRun(id, TRUE, None)
            => jobs'[id].next_run = jobs'[id].last_run + Delta(jobs'[id].interval)
       /\ DueJobs(None)
          => \A id \in DOMAIN jobs' :
                jobs'[id].is_active
                => (id \in lastOp'.due <=> jobs'[id].next_run <= now')]_vars

C7_AddCreates ==
    [][\A p \in Platforms, e \in Entities, m \in IntervalMinutes :
          AddJob(p, e, m)
          => /\ Cardinality(DOMAIN jobs') = Cardinality(DOMAIN jobs) + 1
             /\ lastOp'.id \notin DOMAIN jobs
             /\ \A k \in DOMAIN jobs : k \in DOMAIN jobs' /\ jobs'[k] = jobs[k]]_vars

(***************************************************************************)
(* Claims about the session store.                                         *)
(***************************************************************************)
\* C1 (as claimed): after delete_channel(e) the store holds no stream record
\* whose channel_id is e and no chat message whose stream record belonged to e,
\* however many records and chat messages e had.
C1_CascadeDelete ==
    [][\A e \in RowIds :
          DeleteChannel(e)
          => /\ \A r \in twitch_stream_records' : r.channel_id # e
             /\ \A m \in twitch_chat_messages' :
                   \A r \in twitch_stream_records :
                      r.id = m.record_id => r.channel_id # e]_vars

\* C2 (as claimed): in every reachable state every stream record's channel_id is
\* the id of a channel row that exists and every chat message's record_id is the
\* id of a stream record that exists.
C2_ReferentialIntegrity ==
    /\ \A r \in twitch_stream_records : \E c \in twitch_channels : c.id = r.channel_id
    /\ \A m \in twitch_chat_messages : \E r \in twitch_stream_records : r.id = m.record_id

\* the natural key the claim compares by: trimmed, in lower case, without its
\* leading sigil
NormalKey(k, sigil) ==
    LET t == Lower(Strip(k)) IN
    IF StartsWith(t, sigil) THEN SubSeq(t, Len(sigil) + 1, Len(t)) ELSE t

\* C8 (as claimed): names that are case or sigil variants of one natural key
\* are one entity: the store never holds two rows for them.
C8_NormalizedKey ==
    /\ \A c1, c2 \in twitch_channels :
          NormalKey(c1.channel_name, <<"@">>) = NormalKey(c2.channel_name, <<"@">>)
          => c1 = c2
    /\ \A s1, s2 \in reddit_subreddits :
          NormalKey(s1.subreddit_name, <<"r", "/">>)
             = NormalKey(s2.subreddit_name, <<"r", "/">>)
          => s1 = s2

\* C8 (amended): add_channel and add_subreddit are get-or-create by the name
\* exactly as given: the call returns the id of the one row of that name, leaves
\* the table as it was if the row existed, and otherwise adds one row, also when
\* a case or sigil variant of the name has a row.  The add forms clean the name
\* first: a form that accepts a name leaves exactly one row named by its
\* normalized key.
C8_ExactKey ==
    [][/\ \A k \in RawChannelNames :
            /\ AddChannel(k)
               => /\ \E c \in twitch_channels' :
                        /\ c.channel_name = k
                        /\ c.id = lastrowid'
                        /\ \A d \in twitch_channels' : d.channel_name = k => d = c
                  /\ twitch_channels \subseteq twitch_channels'
                  /\ Cardinality(twitch_channels') =
                        IF \E c \in twitch_channels : c.channel_name = k
                        THEN Cardinality(twitch_channels)
                        ELSE Cardinality(twitch_channels) + 1
            /\ (AddChannelForm(k) /\ Len(k) >= 2)
               => /\ Cardinality({c \in twitch_channels' :
                                     c.channel_name = NormalKey(k, <<"@">>)}) = 1
                  /\ twitch_channels \subseteq twitch_channels'
       /\ \A k \in RawSubredditNames :
            /\ AddSubreddit(k)
               => /\ \E c \in reddit_subreddits' :
                        /\ c.subreddit_name = k
                        /\ c.id = lastrowid'
                        /\ \A d \in reddit_subreddits' : d.subreddit_name = k => d = c
                  /\ reddit_subreddits \subseteq reddit_subreddits'
                  /\ Cardinality(reddit_subreddits') =
                        IF \E c \in reddit_subreddits : c.subreddit_name = k
                        THEN Cardinality(reddit_subreddits)
                        ELSE Cardinality(reddit_subreddits) + 1
            /\ (AddSubredditForm(k) /\ k # <<>>)
               => /\ Cardinality({c \in reddit_subreddits' :
                                     c.subreddit_name = NormalKey(k, <<"r", "/">>)}) = 1
                  /\ reddit_subreddits \subseteq reddit_subreddits']_vars

\* C8 witness: "Fo" and "fo" have a row each, and the last add_channel returned
\* the id of the older one instead of adding a row
C8_Witness ==
    \E c1, c2 \in twitch_channels :
        /\ c1.channel_name = <<"F", "o">>
        /\ c2.channel_name = <<"f", "o">>
        /\ c1.id < c2.id
        /\ lastrowid = c1.id

\* C9: once add_tweet was called for a tweet_id the table holds exactly one row
\* of that tweet_id; its metrics are those of the latest call, and its rowid,
\* user_id, created_at, text and collected_at those the first call inserted.
\* Before the first call it holds none.
C9_UpsertRoundTrip ==
    \A x \in TweetIds :
        LET rows == {r \in twitter_tweets : r.tweet_id = x} IN
        IF firstInsert[x] = NoRow
        THEN rows = {}
        ELSE /\ Cardinality(rows) = 1
             /\ \A r \in rows :
                   /\ r.metrics = lastCall[x].metrics
                   /\ r = [firstInsert[x] EXCEPT !.metrics = r.metrics]

\* C9 witness: a tweet was added again, later, with other metrics and another
\* text, while the other tweet has its own row
C9_Witness ==
    \E r1, r2 \in twitter_tweets :
        /\ r1.tweet_id # r2.tweet_id
        /\ lastCall[r1.tweet_id].metrics # firstInsert[r1.tweet_id].metrics
        /\ lastCall[r1.tweet_id].text # firstInsert[r1.tweet_id].text
        /\ r1.metrics = lastCall[r1.tweet_id].metrics
        /\ r1.collected_at < Seconds(now)

(***************************************************************************)
(* Claims about the IRC collector.                                         *)
(***************************************************************************)
\* C10 (as claimed): the message_count collect_messages returns is the number
\* of messages it returns, and the chat_message_count of every stream record is
\* the number of chat rows stored for it.
C10_CountIsParsed ==
    /\ chat_data.message_count = Len(chat_data.messages)
    /\ \A r \in twitch_stream_records :
          r.chat_message_count =
             Cardinality({m \in twitch_chat_messages : m.record_id = r.id})

(***************************************************************************)
(* The IRC client's loop, read by read.                                    *)
(***************************************************************************)
\* C11 (as claimed): between two reads, the client has sent one PONG for every
\* PING line the server has delivered, wherever the line stood in its read.
C11_PingAnswered == pongs = pings

\* C12 (as claimed): a collect_messages call that has entered its loop returns,
\* whatever the server delivers or fails to deliver.
C12_CollectTerminates == (cycle.pc # "idle") ~> (cycle.pc = "idle")

\* C13: disconnect() raises nothing and leaves the client not running, in
\* whatever state the client is: never connected, connected, failed to connect,
\* or disconnected before; and whether or not closing the socket fails.
C13_DisconnectSafe ==
    [][\A close_raises \in BOOLEAN :
          Disconnect(close_raises) => ~raised' /\ ~running']_vars

\* C13 happens: a client that connected and collected chat has been disconnected
C13_Witness == sock = "closed" /\ ~running /\ message_count > 0

(***************************************************************************)
(* The scheduler: absent ids, due-checks, bulk start and stop, statistics. *)
(***************************************************************************)
\* C14: remove_job, pause_job, resume_job and mark_job_run with an id that is
\* not in the scheduler leave every job as it was, and after remove_job(id) a
\* second remove_job(id) changes nothing.
C14_AbsentIdNoOp ==
    [][\A id \in JobIds :
          /\ (/\ id \notin DOMAIN jobs
              /\ \/ RemoveJob(id)
                 \/ PauseJob(id)
                 \/ ResumeJob(id)
                 \/ MarkRun(id, TRUE, None)
                 \/ \E e \in Errors : MarkRun(id, FALSE, e))
             => jobs' = jobs
          /\ RemoveJob(id) =>
                /\ id \notin DOMAIN jobs'
                /\ (IF id \in DOMAIN jobs' THEN Remove(jobs', id) ELSE jobs') = jobs']_vars

\* C14 happens: resume_job was called with an id that no job has, while the
\* scheduler held a paused job
C14_Witness ==
    /\ lastOp.op = "resume_job"
    /\ lastOp.id \notin DOMAIN jobs
    /\ \E j \in DOMAIN jobs : ~jobs[j].is_active

\* C15: get_jobs_due_for_run returns exactly the jobs that are active, have
\* next_run at or before the clock, and are of the platform asked for if one
\* is: no paused job, no job whose next_run is in the future, no job of
\* another platform, and every job that meets all three.
C15_DueExact ==
    [][\A p \in Platforms \cup {None} :
          DueJobs(p) =>
             /\ \A j \in lastOp'.due :
                   /\ j \in DOMAIN jobs
                   /\ jobs[j].is_active
                   /\ jobs[j].next_run <= now
                   /\ p # None => jobs[j].platform = p
             /\ \A j \in DOMAIN jobs :
                   (/\ jobs[j].is_active
                    /\ jobs[j].next_run <= now
                    /\ p # None => jobs[j].platform = p) => j \in lastOp'.due]_vars

\* C15 happens: a due-check with a platform filter returned a job and left out
\* another job of that platform
C15_Witness ==
    /\ lastOp.op = "get_jobs_due_for_run"
    /\ lastOp.filter # None
    /\ lastOp.due # {}
    /\ \E j \in DOMAIN jobs \ lastOp.due : jobs[j].platform = lastOp.filter

\* C16: start_all_jobs(s) leaves the same jobs, all active, all with interval
\* s, each with next_run at a clock value read during the call, and changes no
\* other field; a due-check that follows it returns every job (of the platform
\* asked for).  stop_all_jobs makes every job inactive and changes nothing
\* else; a due-check that follows it returns no job.
C16_BulkStartStop ==
    [][/\ \A s \in IntervalSeconds :
             StartAll(s) =>
                /\ DOMAIN jobs' = DOMAIN jobs
                /\ \A j \in DOMAIN jobs :
                      /\ jobs'[j].is_active
                      /\ jobs'[j].interval = s
                      /\ now <= jobs'[j].next_run /\ jobs'[j].next_run <= now'
                      /\ jobs'[j] = [jobs[j] EXCEPT !.is_active = TRUE,
                                                    !.interval = s,
                                                    !.next_run = jobs'[j].next_run]
       /\ StopAll =>
             /\ DOMAIN jobs' = DOMAIN jobs
             /\ \A j \in DOMAIN jobs : jobs'[j] = [jobs[j] EXCEPT !.is_active = FALSE]
       /\ \A p \in Platforms \cup {None} :
             DueJobs(p) =>
                /\ lastOp.op = "start_all_jobs" =>
                      lastOp'.due = {j \in DOMAIN jobs : p # None => jobs[j].platform = p}
                /\ lastOp.op = "stop_all_jobs" => lastOp'.due = {}]_vars

\* C16 happens: a due-check right after start_all_jobs returned both jobs of the
\* scheduler, one of which had run and so had its next_run in the future, and
\* both have the bulk interval, which add_job gave neither
C16_Witness ==
    /\ lastOp.op = "get_jobs_due_for_run"
    /\ lastOp.prevOp = "start_all_jobs"
    /\ lastOp.due = DOMAIN jobs
    /\ Cardinality(DOMAIN jobs) = 2
    /\ \E j \in DOMAIN jobs : jobs[j].total_runs > 0
    /\ \A j \in DOMAIN jobs :
          /\ jobs[j].interval \in IntervalSeconds
          /\ jobs[j].interval \notin {m * SecPerMin : m \in IntervalMinutes}

\* C17: get_job_statistics changes no job, and in the dict it returns
\* total_jobs is the number of jobs and equals active_jobs + paused_jobs,
\* total_runs is the sum of the jobs' total_runs, jobs_with_errors is the number
\* of jobs whose last_error is not None, and the jobs_by_platform counts add up
\* to total_jobs.
C17_Statistics ==
    [][GetJobStatistics =>
          LET s == lastOp'.stats
              by == s.jobs_by_platform IN
          /\ jobs' = jobs
          /\ s.total_jobs = Cardinality(DOMAIN jobs)
          /\ s.total_jobs = s.active_jobs + s.paused_jobs
          /\ s.total_runs = SumRuns(jobs, DOMAIN jobs)
          /\ s.jobs_with_errors =
                Cardinality({j \in DOMAIN jobs : jobs[j].last_error # None})
          /\ by["twitch"] + by["twitter"] + by["youtube"] + by["reddit"] = s.total_jobs]_vars

\* C17 happens: statistics were taken of an active and a paused job, of two
\* platforms, both of which have run, one with an error
C17_Witness ==
    /\ lastOp.op = "get_job_statistics"
    /\ lastOp.stats.active_jobs = 1
    /\ lastOp.stats.paused_jobs = 1
    /\ lastOp.stats.total_runs = 2
    /\ lastOp.stats.jobs_with_errors = 1
    /\ lastOp.stats.jobs_by_platform["twitch"] = 1
    /\ lastOp.stats.jobs_by_platform["reddit"] = 1

(***************************************************************************)
(* What the scheduler and the store do with malformed input.               *)
(***************************************************************************)
\* C18 (as claimed): add_job and update_job_interval with an interval that is
\* not positive leave the jobs as they were, and add_channel with an empty name,
\* called directly or by the add form, leaves the tables as they were.
C18_MalformedRejected ==
    [][/\ \A p \in Platforms, e \in Entities, m \in AnyInterval :
             (m <= 0 /\ AddJob(p, e, m)) => jobs' = jobs
       /\ \A id \in DOMAIN jobs, i \in AnyInterval :
             (i <= 0 /\ UpdateJobInterval(id, i)) => jobs' = jobs
       /\ AddChannel(<<>>) => UNCHANGED tableVars
       /\ \A k \in TypedChannelNames :
             (CleanChannelName(k) = <<>> /\ AddChannelForm(k)) => UNCHANGED tableVars]_vars

(***************************************************************************)
(* The IRC client: errors and lines.                                       *)
(***************************************************************************)
\* C19 (as claimed): a collect_messages call whose connect fails, or whose recv
\* or send fails, raises to its caller instead of returning a result.
C19_IoErrorsPropagate ==
    [][/\ (sock = None /\ CollectMessages(FALSE)) => raised'
       /\ RecvRaises => (raised' /\ UNCHANGED chat_data)]_vars

\* C20 (as claimed): every read appends to messages one entry for each
\* well-formed chat line it delivered, in the order of the lines and stamped
\* with the clock at the parse, also when the read holds a PING line; the
\* timestamps never decrease along messages.
C20_EveryLineInspected ==
    [][\A response \in Chunks :
          Recv(response) =>
             /\ messages' = messages \o ParsedAll(Split(response, CRLF), now)
             /\ \A i, k \in 1..Len(messages') :
                   i <= k => messages'[i].timestamp <= messages'[k].timestamp]_vars

(***************************************************************************)
(* The driver.                                                             *)
(***************************************************************************)
\* C21 (as claimed): the driver is through with a job its due-check returned
\* only by marking it run: the job's total_runs has gone up by one and its
\* next_run lies in the future, whatever the job's platform.
C21_DriverRunsEveryDueJob ==
    [][\A j \in driver.todo :
          j \notin driver'.todo =>
             /\ jobs'[j].total_runs = jobs[j].total_runs + 1
             /\ jobs'[j].next_run > now']_vars

\* C22 (as claimed): when the cycle the driver ran for a job returned failure,
\* the job has a last_error after the driver's mark_job_run, and the statistics
\* count the job among the jobs with errors.
C22_FailureRecorded ==
    [][(DriverMark /\ collected = "False") =>
          /\ jobs'[driver.job].last_error # None
          /\ JobStatistics(jobs').jobs_with_errors >= 1]_vars

(***************************************************************************)
(* The channel list and the sidebar.                                       *)
(***************************************************************************)
\* C23 (as claimed): a channel's is_monitoring is true exactly when the
\* scheduler holds an active twitch job for the channel.
C23_MonitoringFollowsJob ==
    \A c \in twitch_channels :
        c.is_monitoring <=> \E j \in ChannelJobs(c.id) : jobs[j].is_active

\* every job that exists before and after the step keeps its next_run
NextRunKept ==
    \A j \in DOMAIN jobs \cap DOMAIN jobs' : jobs'[j].next_run = jobs[j].next_run

\* C24 as stated: pause_job, resume_job, start_all_jobs, stop_all_jobs,
\* update_job_interval, mark_job_error, get_jobs_due_for_run and
\* get_job_statistics all leave the next_run of every job unchanged, so that
\* mark_job_run is the only call that moves it.
C24_OnlyMarkRunMovesNextRun ==
    [][(\/ \E id \in JobIds : PauseJob(id) \/ ResumeJob(id)
        \/ \E i \in IntervalSeconds : StartAll(i)
        \/ StopAll
        \/ \E id \in JobIds, i \in IntervalSeconds : UpdateJobInterval(id, i)
        \/ \E id \in JobIds, e \in Errors : MarkJobError(id, e)
        \/ \E p \in {"twitch", None} : DueJobs(p)
        \/ GetJobStatistics) => NextRunKept]_vars

\* C24 amended: mark_job_run, resume_job, start_all_jobs and
\* update_job_interval move a job's next_run (resume_job to now,
\* start_all_jobs to its reading of the clock); pause_job, stop_all_jobs,
\* mark_job_error, get_jobs_due_for_run and get_job_statistics leave the
\* next_run of every job unchanged.
C24_NonSchedulingCallsKeepNextRun ==
    [][/\ (\/ \E id \in JobIds : PauseJob(id)
           \/ StopAll
           \/ \E id \in JobIds, e \in Errors : MarkJobError(id, e)
           \/ \E p \in {"twitch", None} : DueJobs(p)
           \/ GetJobStatistics) => NextRunKept
       /\ \A id \in DOMAIN jobs : ResumeJob(id) => jobs'[id].next_run = now
       /\ \A i \in IntervalSeconds :
             StartAll(i) => \A j \in DOMAIN jobs : jobs'[j].next_run \in now..now']_vars

\* stop_all_jobs has just run over a job whose next run is not the present
C24_StoppedWithSchedule ==
    /\ lastOp.op = "stop_all_jobs"
    /\ \E j \in DOMAIN jobs : ~jobs[j].is_active /\ jobs[j].next_run # now


\* C25: while the chat collection of one job's cycle is still in progress,
\* the driver can make a due-check and can start the cycle of every other
\* due job it holds.
C25_CollectOffControlPath ==
    (driver.pc = "collect" /\ cycle.pc \in {"loop", "recv"}) =>
        /\ ENABLED CheckAndRunDueJobs
        /\ \A j \in driver.todo \ {driver.job} :
              jobs[j].platform = "twitch" /\ jobs[j].total_runs < MaxRuns =>
                  ENABLED (\E collect_chat \in BOOLEAN, info \in StreamInfos,
                                 connected \in BOOLEAN :
                              DriverCollect(j, collect_chat, info, connected))

\* a due-check step of either caller
DueCheck == CheckAndRunDueJobs \/ AutoRunJobs

OneSnapshotAppended(name) ==
    /\ \E r \in twitch_stream_records' \ twitch_stream_records :
          /\ twitch_stream_records' = twitch_stream_records \cup {r}
          /\ \E c \in twitch_channels' : c.id = r.channel_id /\ c.channel_name = name
    /\ collected' = "True"

\* C27: a cycle whose fetch succeeds appends exactly one stream record for
\* the channel and changes no earlier record; it opens an IRC client only
\* when chat is asked for and the stream is live; when the chat collection
\* fails the record is still appended and the cycle returns True; a cycle
\* whose fetch fails appends no record and returns False.
C27_OneSnapshotPerCycle ==
    [][/\ twitch_stream_records \subseteq twitch_stream_records'
       /\ \A name \in ChannelNames, collect_chat \in BOOLEAN, info \in StreamInfos,
             connected \in BOOLEAN :
             CollectTwitchData(name, collect_chat, info, connected) =>
                /\ ~info.ok =>
                      /\ twitch_stream_records' = twitch_stream_records
                      /\ collected' = "False"
                /\ (info.ok /\ ~(collect_chat /\ info.is_live)) =>
                      /\ OneSnapshotAppended(name)
                      /\ sock' = sock /\ cycle'.pc = "idle"
                /\ (info.ok /\ collect_chat /\ info.is_live /\ ~connected) =>
                      /\ OneSnapshotAppended(name)
                      /\ \A r \in twitch_stream_records' \ twitch_stream_records :
                            r.chat_message_count = 0
                /\ (info.ok /\ collect_chat /\ info.is_live /\ connected) =>
                      /\ twitch_stream_records' = twitch_stream_records
                      /\ cycle'.pc = "loop"
       /\ (cycle.pc # "idle" /\ cycle'.pc = "idle") =>
             \E c \in twitch_channels :
                c.id = cycle.channel_id /\ OneSnapshotAppended(c.channel_name)]_vars

\* a cycle whose chat collection broke off has returned True over a store
\* that held a record of an earlier cycle
C27_ChatFailedSnapshotKept ==
    /\ raised
    /\ cycle.pc = "idle"
    /\ collected = "True"
    /\ Cardinality(twitch_stream_records) = 2

\* C28: a collect_messages call returns only what was received during that
\* call; in particular a call during which recv delivered nothing returns no
\* message and the count 0, whatever an earlier call on the client returned.
C28_BufferPerCall ==
    [][(cycle.caller = "direct" /\ cycle.pc # "idle" /\ cycle'.pc = "idle"
           /\ reads = 0 /\ reads' = 0) =>
          /\ chat_data'.messages = <<>>
          /\ chat_data'.message_count = 0]_vars

\* C29: when the YouTube add form starts monitoring after a collection that
\* succeeded, the job it adds has the row id of the channel just collected
\* as its entity_id, whatever the store held before, and a channel that had
\* one job at most has one job at most afterwards.
C29_FormJobForCollectedChannel ==
    [][\A channel_info \in YouTubeChannelInfos, interval \in IntervalMinutes :
          YouTubeAddForm(channel_info, TRUE, interval) =>
             /\ \A c \in youtube_channels' :
                   c.channel_id = channel_info.id =>
                      jobs'[lastOp'.id].entity_id = c.id
             /\ \A c \in youtube_channels' :
                   Cardinality(YouTubeJobs(jobs, c.id)) <= 1 =>
                      Cardinality(YouTubeJobs(jobs', c.id)) <= 1]_vars

\* C30: update_job_interval(j, s) on a job that exists sets its interval to s
\* seconds and its next_run to last_run + s if it has run, to now if not; it
\* leaves is_active, last_run, total_runs and last_error, and every other
\* job, as they are, and changes nothing for an id that is not there.  The
\* mark_job_run that follows puts next_run exactly s seconds after the
\* last_run it records.
C30_IntervalUpdate ==
    [][/\ \A id \in JobIds, s \in IntervalSeconds :
             UpdateJobInterval(id, s) =>
                IF id \in DOMAIN jobs
                THEN jobs' = [jobs EXCEPT
                                ![id].interval = s,
                                ![id].next_run = IF jobs[id].last_run # NoTime
                                                 THEN jobs[id].last_run + Delta(s)
                                                 ELSE now]
                ELSE jobs' = jobs
       /\ \A id \in DOMAIN jobs \cap DOMAIN jobs' :
             (/\ lastOp.op = "update_job_interval"
              /\ lastOp.id = id
              /\ jobs'[id].total_runs = jobs[id].total_runs + 1) =>
                jobs'[id].next_run = jobs'[id].last_run + Delta(jobs[id].interval)]_vars

==============================================================================
